---- MODULE Spec2Model ----
(***************************************************************************)
(* Model of src/src/control/src/ws_mpc/mpc_main.py: cubic-spline reference *)
(* path, speed profile, goal check, iterative linear MPC refinement and    *)
(* the two control loops (do_mpc, do_simulation).                         *)
(*                                                                         *)
(* Units.  The program computes in floating point; the model computes in   *)
(* exact integers / rationals on a grid of units chosen so that every      *)
(* program constant is an integer:                                         *)
(*   length  0.5 m          time   0.1 s          speed  1/360 m/s          *)
(*   accel   1/36 m/s^2     angle  pi/60 rad (3 degrees)                    *)
(* so that v + a*DT and MAX_DSTEER*DT keep the shape they have in the code. *)
(***************************************************************************)
EXTENDS Integers, Sequences, FiniteSets, TLC

VARIABLES call, ret, spline, loop, pc, time, state, infos, target_ind,
          oa, odelta, x0, iter, qp, du, pub

vars == <<call, ret, spline, loop, pc, time, state, infos, target_ind,
          oa, odelta, x0, iter, qp, du, pub>>

fnVars == <<call, ret>>
loopVars == <<loop, pc, time, state, infos, target_ind, oa, odelta, x0,
              iter, qp, du, pub>>

(***************************************************************************)
(* Program constants (mpc_main.py lines 31-66), in the units above.        *)
(***************************************************************************)
T == 5
GOAL_DIS == 3
STOP_SPEED == 50
MAX_TIME == 5000
MAX_ITER == 3
TARGET_SPEED == 1500
N_IND_SEARCH == 10
DT == 2
MAX_STEER == 15
MAX_DSTEER == 1
MAX_SPEED == 5500
MIN_SPEED == 0
MAX_ACCEL == 36

\* Python's None; an optional number n is <<n>>, so that None compares with every value it stands in for
None == <<>>

Some(n) == <<n>>

Abs(n) == IF n < 0 THEN -n ELSE n

(***************************************************************************)
(* Bounds of the model.                                                    *)
(***************************************************************************)
MaxPath == 3
MaxWaypoints == 3
MaxTicks == 2
MaxCoord == 4

(***************************************************************************)
(* Angles.  math.pi is 60 units; math.atan2 is exact on the eight compass  *)
(* directions (and atan2(0, 0) = 0.0), which is where the model's paths    *)
(* keep their position deltas.                                             *)
(***************************************************************************)
PI == 60

atan2(dy, dx) ==
    IF dy = 0 THEN (IF dx >= 0 THEN 0 ELSE PI)
    ELSE IF dx = 0 THEN (IF dy > 0 THEN PI \div 2 ELSE -(PI \div 2))
    ELSE IF dx > 0 THEN (IF dy > 0 THEN PI \div 4 ELSE -(PI \div 4))
    ELSE (IF dy > 0 THEN 3 * (PI \div 4) ELSE -3 * (PI \div 4))

OnCompass(dy, dx) == dy = 0 \/ dx = 0 \/ Abs(dx) = Abs(dy)

\* angle_mod with zero_2_2pi = False: (x + pi) % (2 pi) - pi
angle_mod(x) == ((x + PI) % (2 * PI)) - PI

pi_2_pi(angle) == angle_mod(angle)

(***************************************************************************)
(* check_goal(state, goal, tind, nind)                                     *)
(* d = math.hypot(dx, dy); d <= GOAL_DIS is decided on the squares.        *)
(***************************************************************************)
check_goal(st, goal, tind, nind) ==
    LET dx == st.x - goal[1]
        dy == st.y - goal[2]
        dIn == dx * dx + dy * dy <= GOAL_DIS * GOAL_DIS
        isgoal0 == dIn \/ dx < 0 \/ dy < 0
        isgoal == IF Abs(tind - nind) >= 5 THEN FALSE ELSE isgoal0
        isstop == Abs(st.v) <= STOP_SPEED
    IN  isgoal /\ isstop

(***************************************************************************)
(* calc_speed_profile(cx, cy, cyaw, target_speed)                          *)
(* dirAfter(i) is the value of `direction` after loop iteration i          *)
(* (1-based; iteration i looks at samples i and i+1).                      *)
(***************************************************************************)
RECURSIVE speed_direction(_, _, _, _, _)
speed_direction(cx, cy, cyaw, i, direction0) ==
    IF i = 0 THEN direction0
    ELSE LET prev == speed_direction(cx, cy, cyaw, i - 1, direction0)
             dx == cx[i + 1] - cx[i]
             dy == cy[i + 1] - cy[i]
             move_direction == atan2(dy, dx)
             dangle == Abs(pi_2_pi(move_direction - cyaw[i]))
         IN  IF dx # 0 /\ dy # 0
             THEN (IF dangle >= PI \div 4 THEN -1 ELSE 1)
             ELSE prev

speed_profile_from(cx, cy, cyaw, target_speed, direction0) ==
    IF Len(cx) = 0
    THEN [kind |-> "raise", exc |-> "IndexError"]
    ELSE [kind |-> "return",
          val |-> [i \in 1..Len(cx) |->
                     IF i = Len(cx) THEN 0
                     ELSE IF speed_direction(cx, cy, cyaw, i, direction0) # 1
                          THEN -target_speed
                          ELSE target_speed]]

calc_speed_profile_bad_init(cx, cy, cyaw, target_speed) ==
    speed_profile_from(cx, cy, cyaw, target_speed, -1)

calc_speed_profile(cx, cy, cyaw, target_speed) ==
    speed_profile_from(cx, cy, cyaw, target_speed, 1)

(***************************************************************************)
(* Numbers of the spline.  A finite value is an exact fraction <<n, d>>,   *)
(* d > 0, in lowest terms.  A division by zero gives inf or nan in numpy   *)
(* (a RuntimeWarning, no exception); both are the one non-finite value     *)
(* NaN here, and every operation on it gives NaN again.                    *)
(***************************************************************************)
NaN == <<0, 0>>

R(n) == <<n, 1>>

IsFinite(p) == p[2] # 0

RECURSIVE GCD(_, _)
GCD(a, b) == IF b = 0 THEN a ELSE GCD(b, a % b)

RNorm(n, d) ==
    IF d = 0 THEN NaN
    ELSE LET g == GCD(Abs(n), Abs(d))
         IN  IF d < 0 THEN <<(-n) \div g, (-d) \div g>> ELSE <<n \div g, d \div g>>

RAdd(p, q) ==
    IF IsFinite(p) /\ IsFinite(q) THEN RNorm(p[1] * q[2] + q[1] * p[2], p[2] * q[2]) ELSE NaN

RSub(p, q) ==
    IF IsFinite(p) /\ IsFinite(q) THEN RNorm(p[1] * q[2] - q[1] * p[2], p[2] * q[2]) ELSE NaN

RMul(p, q) ==
    IF IsFinite(p) /\ IsFinite(q) THEN RNorm(p[1] * q[1], p[2] * q[2]) ELSE NaN

RDiv(p, q) ==
    IF IsFinite(p) /\ IsFinite(q) THEN RNorm(p[1] * q[2], p[2] * q[1]) ELSE NaN

\* comparisons of finite values
RLt(p, q) == p[1] * q[2] < q[1] * p[2]

RLe(p, q) == p[1] * q[2] <= q[1] * p[2]

Raise(e) == [kind |-> "raise", exc |-> e]

Return(v) == [kind |-> "return", val |-> v]

(***************************************************************************)
(* CubicSpline1D.__init__(x, y).  Indices are 1-based here: knot i of the  *)
(* model is x[i-1] of the code.                                            *)
(***************************************************************************)
\* h = np.diff(x)
spline_diff(x) == [i \in 1..(Len(x) - 1) |-> RSub(x[i + 1], x[i])]

\* __calc_A(h): row r, column c of A (1-based), after the three final assignments
spline_A(h, nx, r, c) ==
    IF r = 1 \/ r = nx THEN (IF c = r THEN R(1) ELSE R(0))
    ELSE IF c = r THEN RMul(R(2), RAdd(h[r - 1], h[r]))
    ELSE IF c = r - 1 THEN h[r - 1]
    ELSE IF c = r + 1 THEN h[r]
    ELSE R(0)

\* __calc_B(h, a)
spline_B(h, a, nx) ==
    [r \in 1..nx |->
        IF r = 1 \/ r = nx THEN R(0)
        ELSE RSub(RDiv(RMul(R(3), RSub(a[r + 1], a[r])), h[r]),
                  RDiv(RMul(R(3), RSub(a[r], a[r - 1])), h[r - 1]))]

(***************************************************************************)
(* np.linalg.solve(A, B) for the tridiagonal A of __calc_A: elimination    *)
(* without row exchanges, which A (diagonally dominant wherever a row is   *)
(* not zero) admits.  A zero pivot means A is singular: LinAlgError.       *)
(***************************************************************************)
RECURSIVE solve_pivot(_, _, _)
solve_pivot(h, nx, r) ==
    IF r = 1 THEN spline_A(h, nx, 1, 1)
    ELSE RSub(spline_A(h, nx, r, r),
              RDiv(RMul(spline_A(h, nx, r, r - 1), spline_A(h, nx, r - 1, r)),
                   solve_pivot(h, nx, r - 1)))

RECURSIVE solve_rhs(_, _, _, _)
solve_rhs(h, B, nx, r) ==
    IF r = 1 THEN B[1]
    ELSE RSub(B[r],
              RDiv(RMul(spline_A(h, nx, r, r - 1), solve_rhs(h, B, nx, r - 1)),
                   solve_pivot(h, nx, r - 1)))

RECURSIVE solve_back(_, _, _, _)
solve_back(h, B, nx, r) ==
    IF r = nx THEN RDiv(solve_rhs(h, B, nx, nx), solve_pivot(h, nx, nx))
    ELSE RDiv(RSub(solve_rhs(h, B, nx, r),
                   RMul(spline_A(h, nx, r, r + 1), solve_back(h, B, nx, r + 1))),
              solve_pivot(h, nx, r))

linalg_solve(h, B, nx) ==
    IF \E r \in 1..nx : solve_pivot(h, nx, r) = R(0)
    THEN Raise("LinAlgError")
    ELSE Return([r \in 1..nx |-> solve_back(h, B, nx, r)])

CubicSpline1D(x, y) ==
    LET h == spline_diff(x)
        nx == Len(x)
        a == y
    IN  IF \E i \in 1..(nx - 1) : RLt(h[i], R(0))
        THEN Raise("ValueError")
        ELSE IF nx < 2
        THEN Raise("IndexError")    \* A[0, 1] = 0.0 on a 1 x 1 matrix
        ELSE LET sol == linalg_solve(h, spline_B(h, a, nx), nx)
             IN  IF sol.kind = "raise" THEN sol
                 ELSE LET c == sol.val
                      IN  Return(
                            [x |-> x, y |-> y, nx |-> nx, a |-> a, c |-> c,
                             d |-> [i \in 1..(nx - 1) |->
                                      RDiv(RSub(c[i + 1], c[i]), RMul(R(3), h[i]))],
                             b |-> [i \in 1..(nx - 1) |->
                                      RSub(RMul(RDiv(R(1), h[i]), RSub(a[i + 1], a[i])),
                                           RMul(RDiv(h[i], R(3)),
                                                RAdd(RMul(R(2), c[i]), c[i + 1])))]])

(***************************************************************************)
(* __search_index(x) = bisect.bisect(self.x, x) - 1: bisect_right on the   *)
(* sorted knots is the number of knots <= x.  The result is 0-based.       *)
(***************************************************************************)
search_index(sp, x) == Cardinality({j \in 1..sp.nx : RLe(sp.x[j], x)}) - 1

\* the range test shared by calc_position, calc_first_derivative, calc_second_derivative
out_of_range(sp, x) == RLt(x, sp.x[1]) \/ RLt(sp.x[sp.nx], x)

\* self.b[i], self.d[i] have nx - 1 entries: index nx - 1 raises IndexError
RPow2(p) == RMul(p, p)

RPow3(p) == RMul(p, RMul(p, p))

calc_position_1d(sp, x) ==
    IF out_of_range(sp, x) THEN Return(None)
    ELSE LET i == search_index(sp, x)
             dx == RSub(x, sp.x[i + 1])
         IN  IF i + 1 > sp.nx - 1 THEN Raise("IndexError")
             ELSE Return(RAdd(RAdd(RAdd(sp.a[i + 1], RMul(sp.b[i + 1], dx)),
                                   RMul(sp.c[i + 1], RPow2(dx))),
                              RMul(sp.d[i + 1], RPow3(dx))))

calc_first_derivative(sp, x) ==
    IF out_of_range(sp, x) THEN Return(None)
    ELSE LET i == search_index(sp, x)
             dx == RSub(x, sp.x[i + 1])
         IN  IF i + 1 > sp.nx - 1 THEN Raise("IndexError")
             ELSE Return(RAdd(RAdd(sp.b[i + 1], RMul(RMul(R(2), sp.c[i + 1]), dx)),
                              RMul(RMul(R(3), sp.d[i + 1]), RPow2(dx))))

calc_second_derivative(sp, x) ==
    IF out_of_range(sp, x) THEN Return(None)
    ELSE LET i == search_index(sp, x)
             dx == RSub(x, sp.x[i + 1])
         IN  IF i + 1 > sp.nx - 1 THEN Raise("IndexError")
             ELSE Return(RAdd(RMul(R(2), sp.c[i + 1]),
                              RMul(RMul(R(6), sp.d[i + 1]), dx)))

(***************************************************************************)
(* CubicSpline2D.  np.hypot is exact on the model's waypoints, whose       *)
(* consecutive deltas have an integer length.                              *)
(***************************************************************************)
hypot(dx, dy) == CHOOSE r \in 0..(Abs(dx) + Abs(dy)) : r * r = dx * dx + dy * dy

RECURSIVE calc_s_at(_, _, _)
calc_s_at(x, y, i) ==
    IF i = 1 THEN 0
    ELSE calc_s_at(x, y, i - 1) + hypot(x[i] - x[i - 1], y[i] - y[i - 1])

\* __calc_s: s = [0] followed by the cumulative sums of ds
calc_s(x, y) == [i \in 1..(IF Len(x) = 0 THEN 1 ELSE Len(x)) |-> R(calc_s_at(x, y, i))]

CubicSpline2D(x, y) ==
    LET s == calc_s(x, y)
        sx == CubicSpline1D(s, [i \in 1..Len(x) |-> R(x[i])])
        sy == CubicSpline1D(s, [i \in 1..Len(y) |-> R(y[i])])
    IN  IF sx.kind = "raise" THEN sx
        ELSE IF sy.kind = "raise" THEN sy
        ELSE Return([s |-> s, sx |-> sx.val, sy |-> sy.val])

\* CubicSpline2D.calc_position(s): the pair (x, y), each possibly None
calc_position(sp, s) ==
    LET x == calc_position_1d(sp.sx, s)
        y == calc_position_1d(sp.sy, s)
    IN  IF x.kind = "raise" THEN x
        ELSE IF y.kind = "raise" THEN y
        ELSE Return(<<x.val, y.val>>)

(***************************************************************************)
(* calc_yaw(s) = math.atan2(dy, dx) and calc_curvature(s) =                *)
(* (ddy*dx - ddx*dy) / (dx**2 + dy**2)**(3/2): with a None operand both    *)
(* raise TypeError.  The values are kept unevaluated: the yaw as the pair  *)
(* (dy, dx), the curvature as numerator and the base of the power.         *)
(***************************************************************************)
calc_yaw(sp, s) ==
    LET dx == calc_first_derivative(sp.sx, s)
        dy == calc_first_derivative(sp.sy, s)
    IN  IF dx.kind = "raise" THEN dx
        ELSE IF dy.kind = "raise" THEN dy
        ELSE IF dx.val = None \/ dy.val = None THEN Raise("TypeError")
        ELSE Return(<<"atan2", dy.val, dx.val>>)

calc_curvature(sp, s) ==
    LET dx == calc_first_derivative(sp.sx, s)
        ddx == calc_second_derivative(sp.sx, s)
        dy == calc_first_derivative(sp.sy, s)
        ddy == calc_second_derivative(sp.sy, s)
    IN  IF dx.kind = "raise" THEN dx
        ELSE IF ddx.kind = "raise" THEN ddx
        ELSE IF dy.kind = "raise" THEN dy
        ELSE IF ddy.kind = "raise" THEN ddy
        ELSE IF ddy.val = None \/ dx.val = None \/ ddx.val = None \/ dy.val = None
        THEN Raise("TypeError")
        ELSE Return(<<"curvature",
                      RSub(RMul(ddy.val, dx.val), RMul(ddx.val, dy.val)),
                      RAdd(RPow2(dx.val), RPow2(dy.val))>>)

(***************************************************************************)
(* calc_spline_course(x, y, ds) and get_path(waypoints, dl): the course    *)
(* sampled at s = 0, ds, 2 ds, ... < sp.s[-1].  reformatting raises        *)
(* IndexError on an empty waypoint list (path_array[:, 0] of a 1-D array). *)
(***************************************************************************)
arange_count(total, ds) == Cardinality({k \in 0..total[1] : RLt(R(k * ds), total)})

\* the lists rx, ry, ryaw, rk sampled from the spline sp
spline_course_samples(sp, ds) ==
    LET n == arange_count(sp.s[Len(sp.s)], ds)
        pos == [k \in 1..n |-> calc_position(sp, R((k - 1) * ds))]
        yaw == [k \in 1..n |-> calc_yaw(sp, R((k - 1) * ds))]
        rk == [k \in 1..n |-> calc_curvature(sp, R((k - 1) * ds))]
    IN  IF \E k \in 1..n : pos[k].kind = "raise" THEN Raise("IndexError")
        ELSE IF \E k \in 1..n : yaw[k].kind = "raise" \/ rk[k].kind = "raise"
        THEN Raise("TypeError")
        ELSE Return([cx |-> [k \in 1..n |-> pos[k].val[1]],
                     cy |-> [k \in 1..n |-> pos[k].val[2]],
                     cyaw |-> [k \in 1..n |-> yaw[k].val],
                     ck |-> [k \in 1..n |-> rk[k].val]])

\* sp = CubicSpline2D(x, y) is built once, then sampled
calc_spline_course(x, y, ds) ==
    CHOOSE course \in { IF sp.kind = "raise" THEN sp ELSE spline_course_samples(sp.val, ds) :
                        sp \in {CubicSpline2D(x, y)} } : TRUE

get_path(waypoints, ds) ==
    IF Len(waypoints) = 0 THEN Raise("IndexError")
    ELSE calc_spline_course([i \in 1..Len(waypoints) |-> waypoints[i][1]],
                            [i \in 1..Len(waypoints) |-> waypoints[i][2]], ds)

(***************************************************************************)
(* smooth_yaw(yaw): each heading is unwrapped against its (already         *)
(* unwrapped) predecessor, first downwards, then upwards.                  *)
(***************************************************************************)
RECURSIVE smooth_yaw_down(_, _)
smooth_yaw_down(y, prev) ==
    IF y - prev >= PI \div 2 THEN smooth_yaw_down(y - 2 * PI, prev) ELSE y

RECURSIVE smooth_yaw_up(_, _)
smooth_yaw_up(y, prev) ==
    IF y - prev <= -(PI \div 2) THEN smooth_yaw_up(y + 2 * PI, prev) ELSE y

RECURSIVE smooth_yaw_at(_, _)
smooth_yaw_at(yaw, i) ==
    IF i = 1 THEN yaw[1]
    ELSE LET prev == smooth_yaw_at(yaw, i - 1)
         IN  smooth_yaw_up(smooth_yaw_down(yaw[i], prev), prev)

smooth_yaw(yaw) == [i \in 1..Len(yaw) |-> smooth_yaw_at(yaw, i)]

(***************************************************************************)
(* Vehicle state and its two transitions.                                  *)
(***************************************************************************)
State(x, y, yaw, v) == [x |-> x, y |-> y, yaw |-> yaw, v |-> v]

\* the speed left as integrated, without the two clamps
clamp_speed_none(v) == v

clamp_speed(v) ==
    IF v > MAX_SPEED THEN MAX_SPEED ELSE IF v < MIN_SPEED THEN MIN_SPEED ELSE v

clamp_steer(delta) ==
    IF delta >= MAX_STEER THEN MAX_STEER
    ELSE IF delta <= -MAX_STEER THEN -MAX_STEER ELSE delta

\* update_state_carla(state, easting, northing, yaw_radians_lib, speed)
update_state_carla(st, easting, northing, yaw_radians_lib, speed) ==
    State(easting, northing, clamp_steer(yaw_radians_lib), clamp_speed(speed))

(***************************************************************************)
(* update_state(state, a, delta).  The speed update and both clamps are    *)
(* exact.  cos, sin and tan are not computed: the new position is any      *)
(* point of Grid no farther from the old one, per axis, than |v| * DT      *)
(* (|cos|, |sin| <= 1), or the old one; of the turn only the direction,    *)
(* the sign of v * tan(delta), is kept, as one step of the angle grid.     *)
(* The result is the set of such states.                                   *)
(***************************************************************************)
Sign(n) == IF n > 0 THEN 1 ELSE IF n < 0 THEN -1 ELSE 0

update_state(st, a, delta, Grid) ==
    LET d == clamp_steer(delta)
        turn == Sign(st.v) * Sign(d)
    IN  { State(p[1], p[2], st.yaw + turn, clamp_speed(st.v + a * DT)) :
            p \in { q \in Grid \cup {<<st.x, st.y>>} :
                      /\ 1800 * Abs(q[1] - st.x) <= Abs(st.v) * DT
                      /\ 1800 * Abs(q[2] - st.y) <= Abs(st.v) * DT } }

(***************************************************************************)
(* calc_nearest_index(state, cx, cy, cyaw, pind): the index (0-based, as   *)
(* in the code) of the first nearest sample in cx[pind : pind +            *)
(* N_IND_SEARCH].  Both callers discard the signed distance `mind`.        *)
(***************************************************************************)
SqDist(st, cx, cy, j) ==
    (st.x - cx[j + 1]) * (st.x - cx[j + 1]) + (st.y - cy[j + 1]) * (st.y - cy[j + 1])

\* the search over cx[pind:], without the N_IND_SEARCH window
calc_nearest_index_whole_path(st, cx, cy, cyaw, pind) ==
    LET window == pind..(Len(cx) - 1)
    IN  [kind |-> "return",
         ind |-> CHOOSE j \in window :
                    /\ \A k \in window : SqDist(st, cx, cy, j) <= SqDist(st, cx, cy, k)
                    /\ \A k \in window : k < j =>
                          SqDist(st, cx, cy, k) > SqDist(st, cx, cy, j)]

calc_nearest_index(st, cx, cy, cyaw, pind) ==
    LET hi == IF pind + N_IND_SEARCH < Len(cx) THEN pind + N_IND_SEARCH ELSE Len(cx)
        window == pind..(hi - 1)
    IN  IF window = {}
        THEN [kind |-> "raise", exc |-> "ValueError"]
        ELSE [kind |-> "return",
              ind |-> CHOOSE j \in window :
                         /\ \A k \in window : SqDist(st, cx, cy, j) <= SqDist(st, cx, cy, k)
                         /\ \A k \in window : k < j =>
                               SqDist(st, cx, cy, k) > SqDist(st, cx, cy, j)]

(***************************************************************************)
(* calc_ref_trajectory(state, cx, cy, cyaw, ck, sp, dl, pind): the         *)
(* reference index and, per horizon row, the path index the row is read    *)
(* from.  int(round(travel / dl)) rounds half to even (Python 3).          *)
(***************************************************************************)
round_half_even(n, d) ==
    LET q == n \div d
        r == n % d
    IN  IF 2 * r < d THEN q
        ELSE IF 2 * r > d THEN q + 1
        ELSE IF q % 2 = 0 THEN q ELSE q + 1

\* travel after row i (0-based) is (i + 1) * |v| * DT, in 1/3600 m; dl is in 0.5 m
ref_dind(st, dl, i) == round_half_even((i + 1) * Abs(st.v) * DT, 1800 * dl)

\* a row past the end of the course kept at ind instead of ncourse - 1
ref_row_index_stays(st, dl, ind, ncourse, i) ==
    IF ind + ref_dind(st, dl, i) < ncourse THEN ind + ref_dind(st, dl, i)
    ELSE ind

ref_row_index(st, dl, ind, ncourse, i) ==
    IF ind + ref_dind(st, dl, i) < ncourse THEN ind + ref_dind(st, dl, i)
    ELSE ncourse - 1

\* ind, _ = calc_nearest_index(...); if pind >= ind: ind = pind
ref_index(st, cx, cy, cyaw, pind) ==
    LET near == calc_nearest_index(st, cx, cy, cyaw, pind).ind
    IN  IF pind >= near THEN pind ELSE near

calc_ref_trajectory(st, cx, cy, cyaw, sp, dl, pind) ==
    LET near == calc_nearest_index(st, cx, cy, cyaw, pind)
    IN  IF near.kind = "raise" THEN near
        ELSE LET ind == ref_index(st, cx, cy, cyaw, pind)
                 rows == [i \in 0..T |-> ref_row_index(st, dl, ind, Len(cx), i)]
             IN  [kind |-> "return",
                  ind |-> ind,
                  rows |-> rows,
                  xref |-> [i \in 0..T |->
                              [x |-> cx[rows[i] + 1], y |-> cy[rows[i] + 1],
                               v |-> sp[rows[i] + 1], yaw |-> cyaw[rows[i] + 1]]],
                  dref |-> [i \in 0..T |-> 0]]

(***************************************************************************)
(* The QP of linear_mpc_control.  The solver (cvxpy / CLARABEL) is not     *)
(* part of the program: its result is an input, a status and, when the     *)
(* status carries a solution, the value of u.  A solution of status        *)
(* "optimal" satisfies the input constraints the program states            *)
(* (qp_input_constraints); one of status "optimal_inaccurate" is only the  *)
(* solver's last iterate and need not.                                     *)
(***************************************************************************)
Zeros == [t \in 1..T |-> 0]

Control(a, d) == [oa |-> a, od |-> d]

Controls ==
    { Control(Zeros, Zeros),
      Control([t \in 1..T |-> IF t = 1 THEN 1 ELSE 0], Zeros),
      Control([t \in 1..T |-> MAX_ACCEL], [t \in 1..T |-> (t - 1) * MAX_DSTEER * DT]),
      Control([t \in 1..T |-> IF t = 1 THEN MAX_ACCEL + 1 ELSE 0], Zeros),
      Control(Zeros, [t \in 1..T |-> IF t = 1 THEN 0 ELSE MAX_DSTEER * DT + 1]) }

qp_input_constraints(u) ==
    /\ \A t \in 1..(T - 1) : Abs(u.od[t + 1] - u.od[t]) <= MAX_DSTEER * DT
    /\ \A t \in 1..T : Abs(u.oa[t]) <= MAX_ACCEL
    /\ \A t \in 1..T : Abs(u.od[t]) <= MAX_STEER

FailStatuses == {"infeasible", "user_limit"}

SolverOutcomes(Ctrls) ==
    { [status |-> "optimal", u |-> c] : c \in { k \in Ctrls : qp_input_constraints(k) } }
    \cup { [status |-> "optimal_inaccurate", u |-> c] : c \in Ctrls }
    \cup { [status |-> s, u |-> Control(None, None)] : s \in FailStatuses }

\* no solve yet in this tick
NoSolve == [status |-> "none", u |-> Control(None, None)]

\* linear_mpc_control's handling of prob.status (lines 704-716)
linear_mpc_control(out) ==
    IF out.status = "optimal" \/ out.status = "optimal_inaccurate"
    THEN [oa |-> out.u.oa, odelta |-> out.u.od]
    ELSE [oa |-> None, odelta |-> None]

(***************************************************************************)
(* du = sum(abs(oa - poa)) + sum(abs(od - pod)) against DU_TH = 0.1.       *)
(* With accelerations in 1/36 m/s^2 and steerings in pi/60 rad,            *)
(* du = A/36 + D*pi/60; both sides are scaled by 1 800 000 and pi is taken *)
(* as 3.1416, which decides du <= DU_TH as the exact value does for every  *)
(* integer A and D.                                                        *)
(***************************************************************************)
DU_TH == 180000

RECURSIVE SumAbsDiff(_, _, _)
SumAbsDiff(p, q, n) ==
    IF n = 0 THEN 0 ELSE SumAbsDiff(p, q, n - 1) + Abs(p[n] - q[n])

control_change(noa, nod, poa, pod) ==
    50000 * SumAbsDiff(noa, poa, T) + 94248 * SumAbsDiff(nod, pod, T)

(***************************************************************************)
(* The course of the control loops: the straight path along the x axis     *)
(* sampled every dl, CourseLen samples, with its speed profile.            *)
(***************************************************************************)
dl == 2

CourseLen == 7

CourseX == [i \in 1..CourseLen |-> (i - 1) * dl]

CourseY == [i \in 1..CourseLen |-> 0]

CourseYaw == smooth_yaw([i \in 1..CourseLen |-> 0])

CourseSp == calc_speed_profile(CourseX, CourseY, CourseYaw, TARGET_SPEED).val

CourseGoal == <<CourseX[CourseLen], CourseY[CourseLen]>>

(***************************************************************************)
(* Inputs of the pure functions.                                           *)
(***************************************************************************)
GoalSpeeds == {-(STOP_SPEED + 1), -STOP_SPEED, 0, STOP_SPEED, STOP_SPEED + 1}

Steps == {<<1, 0>>, <<0, 1>>, <<1, 1>>, <<-1, 0>>, <<0, 0>>}

YawVals == {0, PI \div 4, PI \div 2, PI}

RECURSIVE PathFrom(_, _, _)
PathFrom(steps, k, sel) ==
    IF k = 0 THEN 0 ELSE PathFrom(steps, k - 1, sel) + steps[k][sel]

\* the samples reached from (0, 0) by the steps: sample i is the sum of the first i-1 steps
PathX(steps) == [i \in 1..(Len(steps) + 1) |-> PathFrom(steps, i - 1, 1)]

PathY(steps) == [i \in 1..(Len(steps) + 1) |-> PathFrom(steps, i - 1, 2)]

Call_check_goal ==
    /\ call.fn = "none"
    /\ \E x \in -MaxCoord..MaxCoord, y \in -MaxCoord..MaxCoord, v \in GoalSpeeds,
          nind \in {7}, tind \in 0..7 :
          LET st == State(x, y, 0, v)
              goal == <<0, 0>>
          IN  /\ call' = [fn |-> "check_goal", state |-> st, goal |-> goal,
                          tind |-> tind, nind |-> nind]
              /\ ret' = check_goal(st, goal, tind, nind)
    /\ UNCHANGED <<spline, loopVars>>

Call_calc_speed_profile ==
    /\ call.fn = "none"
    /\ \E n \in 0..MaxPath :
          IF n = 0
          THEN /\ call' = [fn |-> "calc_speed_profile", cx |-> <<>>, cy |-> <<>>,
                           cyaw |-> <<>>, target_speed |-> TARGET_SPEED]
               /\ ret' = calc_speed_profile(<<>>, <<>>, <<>>, TARGET_SPEED)
          ELSE \E steps \in [1..(n - 1) -> Steps], cyaw \in [1..n -> YawVals] :
                 /\ call' = [fn |-> "calc_speed_profile", cx |-> PathX(steps),
                             cy |-> PathY(steps), cyaw |-> cyaw,
                             target_speed |-> TARGET_SPEED]
                 /\ ret' = calc_speed_profile(PathX(steps), PathY(steps), cyaw,
                                              TARGET_SPEED)
    /\ UNCHANGED <<spline, loopVars>>

(***************************************************************************)
(* The control loops.  pc is the position in do_mpc / do_simulation:       *)
(*   "tick"    at the top of the while loop                                *)
(*   "refine"  inside iterative_linear_mpc_control, before a QP solve      *)
(*   "emit"    back in the loop body, after the refinement returned        *)
(*   "exited"  the loop was left (break, or the while condition failed)    *)
(*   "raised"  an exception left the loop                                  *)
(* oa, odelta are the loop's control sequence, and the refinement's        *)
(* candidate while pc = "refine"; qp is the outcome of the last solve of   *)
(* the tick and du the last control change computed in it.                 *)
(***************************************************************************)
\* nothing published in this tick
NoMessage == [kind |-> "none", steer |-> 0, throttle |-> 0, brake |-> 0]

Snapshot(x, y, yaw, v) == [x |-> x, y |-> y, yaw |-> yaw, v |-> v]

Snapshots ==
    { Snapshot(0, 0, 0, 0),
      Snapshot(4, 0, 0, 0),
      Snapshot(6, 1, PI \div 3, TARGET_SPEED),
      Snapshot(12, 0, 0, 0),
      Snapshot(13, 1, -PI, MAX_SPEED + 500) }

BudgetSnapshots == { Snapshot(0, 1, 0, TARGET_SPEED), Snapshot(12, 0, 0, 0) }

BudgetOutcomes == { [status |-> "optimal", u |-> Control(Zeros, Zeros)] }

SimGrid == { <<x, 0>> : x \in {0, 1, 11, 12, 13} }

\* initial yaw compensation of do_mpc / do_simulation against cyaw[0]
yaw_compensation(st, cyaw0) ==
    IF st.yaw - cyaw0 >= PI THEN [st EXCEPT !.yaw = @ - 2 * PI]
    ELSE IF st.yaw - cyaw0 <= -PI THEN [st EXCEPT !.yaw = @ + 2 * PI]
    ELSE st

\* set_mpc_option builds the initial State from a first snapshot; the loop's set-up follows
InitLoop(Snaps) ==
    /\ loop \in {"do_mpc", "do_simulation"}
    /\ \E s0 \in Snaps :
          /\ state = yaw_compensation(State(s0.x, s0.y, s0.yaw, s0.v), CourseYaw[1])
          /\ infos = s0
    /\ target_ind = calc_nearest_index(state, CourseX, CourseY, CourseYaw, 0).ind
    /\ time = 0
    /\ oa = None /\ odelta = None
    /\ x0 = None /\ iter = 0 /\ qp = NoSolve /\ du = None /\ pub = NoMessage
    /\ pc = "tick"

\* time += DT
time_after_tick_stuck(t) == t

time_after_tick(t) == t + DT

\* if oa is None or od is None: oa = [0.0] * T; od = [0.0] * T
warm_start_cold(poa, pod) == Control(Zeros, Zeros)

warm_start(poa, pod) ==
    IF poa = None \/ pod = None THEN Control(Zeros, Zeros) ELSE Control(poa, pod)

(***************************************************************************)
(* Top of the loop body up to the entry of iterative_linear_mpc_control:   *)
(* do_simulation tests MAX_TIME >= time; do_mpc reads the sensors; both    *)
(* build the reference from the loop's state and enter the refinement,     *)
(* which starts from zeros when there is no previous control sequence.     *)
(***************************************************************************)
TickBegin(Snaps) ==
    /\ pc = "tick"
    /\ IF loop = "do_simulation" /\ ~(MAX_TIME >= time)
       THEN /\ pc' = "exited"
            /\ UNCHANGED <<infos, target_ind, x0, oa, odelta, iter, qp, du, pub>>
       ELSE /\ IF loop = "do_mpc" THEN infos' \in Snaps ELSE infos' = infos
            /\ target_ind' = ref_index(state, CourseX, CourseY, CourseYaw, target_ind)
            /\ x0' = <<state.x, state.y, state.v, state.yaw>>
            /\ oa' = warm_start(oa, odelta).oa
            /\ odelta' = warm_start(oa, odelta).od
            /\ iter' = 0 /\ qp' = NoSolve /\ du' = None /\ pub' = NoMessage
            /\ pc' = "refine"
    /\ UNCHANGED <<loop, time, state, fnVars, spline>>

(***************************************************************************)
(* One iteration of the for loop of iterative_linear_mpc_control:          *)
(* predict_motion (it works on a fresh State and changes nothing here),    *)
(* poa, pod = oa[:], od[:], the QP solve, du, and the break.  When the     *)
(* solve returned None, abs(oa - poa) raises TypeError.                    *)
(***************************************************************************)
\* what the refinement hands back once a solve has succeeded
refined_control(r, poa, pod) == [oa |-> r.oa, odelta |-> r.odelta]

\* the for loop goes on after solve number n (counted from 1) with change d
refine_continues_past_cap(n, d) == d > DU_TH

refine_continues(n, d) == d > DU_TH /\ n < MAX_ITER

Solve(Outs) ==
    /\ pc = "refine"
    /\ \E out \in Outs :
          LET poa == oa
              pod == odelta
              r == linear_mpc_control(out)
          IN  /\ qp' = out
              /\ iter' = iter + 1
              /\ IF r.oa = None
                 THEN /\ oa' = None /\ odelta' = None
                      /\ du' = None
                      /\ pc' = "raised"
                 ELSE /\ oa' = refined_control(r, poa, pod).oa
                      /\ odelta' = refined_control(r, poa, pod).odelta
                      /\ du' = Some(control_change(r.oa, r.odelta, poa, pod))
                      /\ pc' = IF refine_continues(iter + 1, du'[1])
                               THEN "refine" ELSE "emit"
    /\ UNCHANGED <<loop, time, state, infos, target_ind, x0, pub, fnVars, spline>>

(***************************************************************************)
(* angle_norm / accelerate_norm / update_control_dict: np.abs(None) raises *)
(* TypeError; otherwise the set-points handed to the actuator stage are    *)
(* steer = di / MAX_STEER, throttle = ai / MAX_ACCEL (ai >= 0), brake =    *)
(* -ai / MAX_ACCEL (ai < 0), kept here as their numerators.                *)
(***************************************************************************)
update_control_dict(di, ai) ==
    IF di = None \/ ai = None
    THEN [kind |-> "raise", exc |-> "TypeError"]
    ELSE [kind |-> "return",
          steer |-> di[1],
          throttle |-> IF ai[1] >= 0 THEN ai[1] ELSE 0,
          brake |-> IF ai[1] >= 0 THEN 0 ELSE -ai[1]]


(***************************************************************************)
(* The rest of the loop body, after the refinement returned.               *)
(***************************************************************************)
TickEnd_do_mpc ==
    /\ pc = "emit" /\ loop = "do_mpc"
    /\ LET di == IF odelta # None THEN Some(odelta[1]) ELSE None
           ai == IF odelta # None THEN Some(oa[1]) ELSE None
           st == IF odelta # None
                 THEN update_state_carla(state, infos.x, infos.y, infos.yaw, infos.v)
                 ELSE state
           control_data == update_control_dict(di, ai)
       IN  /\ state' = st
           /\ time' = time_after_tick(time)
           /\ IF control_data.kind = "raise"
              THEN pub' = NoMessage /\ pc' = "raised"
              ELSE /\ pub' = control_data
                   /\ pc' = IF check_goal(st, CourseGoal, target_ind, Len(CourseX))
                               \/ MAX_TIME < time'
                            THEN "exited" ELSE "tick"
    /\ UNCHANGED <<loop, infos, target_ind, oa, odelta, x0, iter, qp, du, fnVars, spline>>

TickEnd_do_simulation ==
    /\ pc = "emit" /\ loop = "do_simulation"
    /\ \E st \in (IF odelta # None
                  THEN update_state(state, oa[1], odelta[1], SimGrid)
                  ELSE {state}) :
          /\ state' = st
          /\ time' = time_after_tick(time)
          /\ pc' = IF check_goal(st, CourseGoal, target_ind, Len(CourseX))
                   THEN "exited" ELSE "tick"
    /\ UNCHANGED <<loop, infos, target_ind, oa, odelta, x0, iter, qp, du, pub,
                   fnVars, spline>>

(***************************************************************************)
(* Idle values of the state a specification does not use.                  *)
(***************************************************************************)
FnIdle == call = [fn |-> "none"] /\ ret = None

SplineIdle == spline = [kind |-> "none"]

LoopIdle ==
    /\ loop = "none" /\ pc = "idle" /\ time = 0
    /\ state = State(0, 0, 0, 0) /\ infos = State(0, 0, 0, 0)
    /\ target_ind = 0 /\ oa = None /\ odelta = None /\ x0 = None /\ iter = 0
    /\ qp = NoSolve /\ du = None /\ pub = NoMessage

\* the loops over MaxTicks ticks, with every sensor snapshot and solver outcome
InitTicks == FnIdle /\ SplineIdle /\ InitLoop(Snapshots)

NextTicks ==
    \/ (time < MaxTicks * DT /\ TickBegin(Snapshots))
    \/ Solve(SolverOutcomes(Controls))
    \/ TickEnd_do_mpc
    \/ TickEnd_do_simulation

SpecLoop == InitTicks /\ [][NextTicks]_vars

\* the loops to their end: the loop is a single thread that runs on whenever it can
InitBudget == FnIdle /\ SplineIdle /\ InitLoop(BudgetSnapshots)

NextBudget ==
    \/ TickBegin(BudgetSnapshots)
    \/ Solve(BudgetOutcomes)
    \/ TickEnd_do_mpc
    \/ TickEnd_do_simulation

SpecBudget == InitBudget /\ [][NextBudget]_vars /\ WF_vars(NextBudget)

(***************************************************************************)
(* The spline as an object: built once from a waypoint list, then          *)
(* evaluated at an arc length.  Waypoints are grid points whose            *)
(* consecutive deltas are parallel to an axis (or zero).                   *)
(***************************************************************************)
WaypointGrid == { <<x, y>> : x \in 0..2, y \in 0..1 }

IntegerSteps(wp) ==
    \A i \in 1..(Len(wp) - 1) : wp[i][1] = wp[i + 1][1] \/ wp[i][2] = wp[i + 1][2]

WaypointSeqs ==
    UNION { { wp \in [1..n -> WaypointGrid] : IntegerSteps(wp) } : n \in 0..MaxWaypoints }

Xs(wp) == [i \in 1..Len(wp) |-> wp[i][1]]

Ys(wp) == [i \in 1..Len(wp) |-> wp[i][2]]

\* arc lengths asked for: every knot, every segment's midpoint, one below and one above the domain
Queries(sp) ==
    { sp.s[k] : k \in 1..Len(sp.s) }
    \cup { RDiv(RAdd(sp.s[k], sp.s[k + 1]), R(2)) : k \in 1..(Len(sp.s) - 1) }
    \cup { R(-1), RAdd(sp.s[Len(sp.s)], R(1)) }

Construct ==
    /\ call.fn = "none"
    /\ \E wp \in WaypointSeqs :
          /\ call' = [fn |-> "CubicSpline2D", waypoints |-> wp, s |-> None]
          /\ spline' = CubicSpline2D(Xs(wp), Ys(wp))
    /\ UNCHANGED <<ret, loopVars>>

Call_calc_position ==
    /\ call.fn = "CubicSpline2D" /\ spline.kind = "return"
    /\ \E s \in Queries(spline.val) :
          /\ call' = [call EXCEPT !.fn = "calc_position", !.s = s]
          /\ ret' = calc_position(spline.val, s)
    /\ UNCHANGED <<spline, loopVars>>

Call_calc_yaw ==
    /\ call.fn = "CubicSpline2D" /\ spline.kind = "return"
    /\ \E s \in Queries(spline.val) :
          /\ call' = [call EXCEPT !.fn = "calc_yaw", !.s = s]
          /\ ret' = calc_yaw(spline.val, s)
    /\ UNCHANGED <<spline, loopVars>>

Call_calc_curvature ==
    /\ call.fn = "CubicSpline2D" /\ spline.kind = "return"
    /\ \E s \in Queries(spline.val) :
          /\ call' = [call EXCEPT !.fn = "calc_curvature", !.s = s]
          /\ ret' = calc_curvature(spline.val, s)
    /\ UNCHANGED <<spline, loopVars>>

Call_get_path ==
    /\ call.fn = "none"
    /\ \E wp \in WaypointSeqs :
          /\ call' = [fn |-> "get_path", waypoints |-> wp, s |-> None]
          /\ ret' = get_path(wp, dl)
    /\ UNCHANGED <<spline, loopVars>>

InitSpline == FnIdle /\ SplineIdle /\ LoopIdle

NextSpline ==
    \/ Construct
    \/ Call_calc_position
    \/ Call_calc_yaw
    \/ Call_calc_curvature
    \/ Call_get_path

SpecSpline == InitSpline /\ [][NextSpline]_vars

Init == FnIdle /\ SplineIdle /\ LoopIdle

Next == Call_check_goal \/ Call_calc_speed_profile

Spec == Init /\ [][Next]_vars

(***************************************************************************)
(* calc_ref_trajectory called tick after tick on one course, each call     *)
(* with the index the previous call returned and with any vehicle state.   *)
(* The courses have more than N_IND_SEARCH samples: a straight one, and a  *)
(* hairpin that runs out along y = 0 and back along y = 1.                 *)
(***************************************************************************)
RefLen == 12

RefCourse(cx, cy, cyaw) ==
    [cx |-> cx, cy |-> cy, cyaw |-> cyaw,
     sp |-> calc_speed_profile(cx, cy, cyaw, TARGET_SPEED).val]

RefStraight ==
    RefCourse([i \in 1..RefLen |-> (i - 1) * dl], [i \in 1..RefLen |-> 0],
              [i \in 1..RefLen |-> 0])

RefHairpin ==
    LET h == RefLen \div 2
    IN  RefCourse([i \in 1..RefLen |-> IF i <= h THEN (i - 1) * dl ELSE (2 * h - i) * dl],
                  [i \in 1..RefLen |-> IF i <= h THEN 0 ELSE 1],
                  [i \in 1..RefLen |-> IF i <= h THEN 0 ELSE PI])

RefCourses == {RefStraight, RefHairpin}

RefStates ==
    { State(x, y, 0, v) :
        x \in {k \in -1..(RefLen * dl) : k % 3 = 0}, y \in {0, 1},
        v \in {0, 450, -TARGET_SPEED, TARGET_SPEED, MAX_SPEED} }

Call_calc_ref_trajectory ==
    /\ call.fn \in {"none", "calc_ref_trajectory"}
    /\ \E st \in RefStates,
          course \in (IF call.fn = "none" THEN RefCourses ELSE {call.course}),
          pind \in (IF call.fn = "none" THEN 0..(RefLen - 1) ELSE {ret.ind}) :
          /\ call' = [fn |-> "calc_ref_trajectory", state |-> st, course |-> course,
                      pind |-> pind]
          /\ ret' = calc_ref_trajectory(st, course.cx, course.cy, course.cyaw,
                                        course.sp, dl, pind)
    /\ UNCHANGED <<spline, loopVars>>

InitRef == FnIdle /\ SplineIdle /\ LoopIdle

NextRef == Call_calc_ref_trajectory

SpecRef == InitRef /\ [][NextRef]_vars

(***************************************************************************)
(* The two state transitions called on their own: update_state over a      *)
(* sequence of up to MaxSteps simulated ticks, each from a state the       *)
(* previous one produced, and update_state_carla on a sensor snapshot.     *)
(***************************************************************************)
MaxSteps == 3

VehicleSpeeds == {-500, 0, MAX_SPEED, MAX_SPEED + 500}

Accels == {-3000, -MAX_ACCEL, 0, MAX_ACCEL, 3000}

Steers == {-PI, -MAX_STEER, 0, MAX_STEER - 1, MAX_STEER + 1}

VehicleGrid == {<<0, 0>>, <<1, 0>>, <<0, 1>>}

Headings == {-PI, -(PI \div 2), -MAX_STEER, 0, MAX_STEER, PI \div 2, PI}

Call_update_state ==
    /\ call.fn \in {"none", "update_state"}
    /\ \E st \in (IF call.fn = "none"
                  THEN {State(0, 0, 0, v) : v \in VehicleSpeeds}
                  ELSE ret.val),
          a \in Accels, delta \in Steers :
          LET n == IF call.fn = "none" THEN 1 ELSE call.n + 1
          IN  /\ n <= MaxSteps
              /\ call' = [fn |-> "update_state", state |-> st, a |-> a,
                          delta |-> delta, n |-> n]
              /\ ret' = Return(update_state(st, a, delta, VehicleGrid))
    /\ UNCHANGED <<spline, loopVars>>

Call_update_state_carla ==
    /\ call.fn = "none"
    /\ \E v0 \in VehicleSpeeds, p \in VehicleGrid, yaw \in Headings, speed \in VehicleSpeeds :
          /\ call' = [fn |-> "update_state_carla", state |-> State(0, 0, 0, v0),
                      easting |-> p[1], northing |-> p[2],
                      yaw_radians_lib |-> yaw, speed |-> speed]
          /\ ret' = Return(update_state_carla(State(0, 0, 0, v0), p[1], p[2], yaw, speed))
    /\ UNCHANGED <<spline, loopVars>>

InitVehicle == FnIdle /\ SplineIdle /\ LoopIdle

NextVehicle == Call_update_state \/ Call_update_state_carla

SpecVehicle == InitVehicle /\ [][NextVehicle]_vars

(***************************************************************************)
(* smooth_yaw(yaw) run loop iteration by loop iteration.  ret holds the    *)
(* list being rewritten in place, the index i of the for loop (the pair    *)
(* yaw[i], yaw[i + 1], 1-based) and which of the two while loops is at     *)
(* its test.                                                               *)
(***************************************************************************)
MaxYaw == 3

YawInputs ==
    {-(2 * PI) - 15, -PI, -(PI \div 2), 1 - (PI \div 2), 0,
     (PI \div 2) - 1, PI \div 2, PI, 3 * PI + 7}

YawRun(kind, yaw, i, phase) == [kind |-> kind, val |-> yaw, i |-> i, phase |-> phase]

\* the second while loop left out
smooth_yaw_step_no_up(r) ==
    LET dyaw == r.val[r.i + 1] - r.val[r.i]
    IN  IF r.phase = "down" /\ dyaw >= PI \div 2
        THEN [r EXCEPT !.val[r.i + 1] = @ - 2 * PI]
        ELSE IF r.i + 1 = Len(r.val) THEN YawRun("return", r.val, r.i, "up")
        ELSE YawRun("running", r.val, r.i + 1, "down")

\* one test of a while condition, with the loop body or the exit that follows it
smooth_yaw_step(r) ==
    LET dyaw == r.val[r.i + 1] - r.val[r.i]
    IN  IF r.phase = "down"
        THEN (IF dyaw >= PI \div 2
              THEN [r EXCEPT !.val[r.i + 1] = @ - 2 * PI]
              ELSE [r EXCEPT !.phase = "up"])
        ELSE IF dyaw <= -(PI \div 2)
        THEN [r EXCEPT !.val[r.i + 1] = @ + 2 * PI]
        ELSE IF r.i + 1 = Len(r.val) THEN YawRun("return", r.val, r.i, "up")
        ELSE YawRun("running", r.val, r.i + 1, "down")

Call_smooth_yaw ==
    /\ call.fn = "none"
    /\ \E n \in 0..MaxYaw : \E yaw \in [1..n -> YawInputs] :
          /\ call' = [fn |-> "smooth_yaw", yaw |-> yaw]
          /\ ret' = IF n <= 1 THEN YawRun("return", yaw, 1, "up")
                    ELSE YawRun("running", yaw, 1, "down")
    /\ UNCHANGED <<spline, loopVars>>

Step_smooth_yaw ==
    /\ call.fn = "smooth_yaw" /\ ret.kind = "running"
    /\ ret' = smooth_yaw_step(ret)
    /\ UNCHANGED <<call, spline, loopVars>>

InitYaw == FnIdle /\ SplineIdle /\ LoopIdle

NextYaw == Call_smooth_yaw \/ Step_smooth_yaw

SpecYaw == InitYaw /\ [][NextYaw]_vars

(***************************************************************************)
(* C1. check_goal returns true exactly when the distance to the goal is    *)
(* <= GOAL_DIS, |v| <= STOP_SPEED and |tind - nind| < 5; in particular it  *)
(* returns false whenever the distance exceeds GOAL_DIS, whatever the      *)
(* signs of the coordinate deltas.                                         *)
(***************************************************************************)
GoalDistanceWithin(st, goal) ==
    (st.x - goal[1]) * (st.x - goal[1]) + (st.y - goal[2]) * (st.y - goal[2])
        <= GOAL_DIS * GOAL_DIS

C1_GoalIffAllThree ==
    call.fn = "check_goal" =>
        (ret = (/\ GoalDistanceWithin(call.state, call.goal)
                /\ Abs(call.state.v) <= STOP_SPEED
                /\ Abs(call.tind - call.nind) < 5))

(***************************************************************************)
(* C9. For every straight path of at least 2 samples whose headings equal  *)
(* the travel direction (axis-aligned paths included) the speed profile is *)
(* +target_speed at every sample but the last and 0 at the last; for any   *)
(* path with a last entry, that entry is 0.                                *)
(***************************************************************************)
StraightPath(cx, cy, cyaw) ==
    /\ Len(cx) >= 2
    /\ \E d \in Steps \ {<<0, 0>>} :
          \A i \in 1..(Len(cx) - 1) :
             cx[i + 1] - cx[i] = d[1] /\ cy[i + 1] - cy[i] = d[2]
    /\ \A i \in 1..Len(cx) : cyaw[i] = atan2(cy[2] - cy[1], cx[2] - cx[1])

C9_StraightProfile ==
    call.fn = "calc_speed_profile" =>
        /\ Len(call.cx) >= 1 =>
              ret.kind = "return" /\ ret.val[Len(call.cx)] = 0
        /\ StraightPath(call.cx, call.cy, call.cyaw) =>
              \A i \in 1..(Len(call.cx) - 1) : ret.val[i] = call.target_speed

C9_Witness ==
    /\ call.fn = "calc_speed_profile"
    /\ Len(call.cx) = MaxPath
    /\ StraightPath(call.cx, call.cy, call.cyaw)
    /\ call.cy[2] = call.cy[1]
    /\ ret.kind = "return"
    /\ ret.val[1] = TARGET_SPEED

(***************************************************************************)
(* C5. For a spline built from n >= 2 waypoints, the position at the       *)
(* cumulative arc length of waypoint k is exactly waypoint k, for every k  *)
(* including the last, and the evaluation does not raise.                  *)
(***************************************************************************)
\* at least two waypoints, no two consecutive ones equal
WellFormed(wp) == Len(wp) >= 2 /\ \A i \in 1..(Len(wp) - 1) : wp[i] # wp[i + 1]

C5_PositionAtEveryKnot ==
    (call.fn = "calc_position" /\ WellFormed(call.waypoints)) =>
        \A k \in 1..Len(call.waypoints) :
            call.s = spline.val.s[k] =>
                ret = Return(<<R(call.waypoints[k][1]), R(call.waypoints[k][2])>>)

(***************************************************************************)
(* C6. Building a reference path from fewer than 2 waypoints, or from      *)
(* waypoints two consecutive of which are equal, fails with an error: the  *)
(* constructor and get_path raise.                                         *)
(***************************************************************************)
C6_MalformedWaypointsRaise ==
    /\ (call.fn = "get_path" /\ ~WellFormed(call.waypoints)) => ret.kind = "raise"
    /\ (call.fn = "CubicSpline2D" /\ ~WellFormed(call.waypoints)) => spline.kind = "raise"

(***************************************************************************)
(* C10. At an arc length outside the domain, position, heading and         *)
(* curvature each return an undefined result (None): none raises and none  *)
(* returns a number.                                                       *)
(***************************************************************************)
OutsideDomain(sp, s) == RLt(s, sp.s[1]) \/ RLt(sp.s[Len(sp.s)], s)

C10_OutOfDomainIsNone ==
    (call.fn \in {"calc_position", "calc_yaw", "calc_curvature"}
        /\ WellFormed(call.waypoints)
        /\ OutsideDomain(spline.val, call.s)) =>
        /\ ret.kind = "return"
        /\ IF call.fn = "calc_position" THEN ret.val = <<None, None>> ELSE ret.val = None

(***************************************************************************)
(* C2. When a QP solve ends with a status other than optimal /             *)
(* optimal-inaccurate, the refinement of that tick returns normally with   *)
(* no control sequence (oa and odelta None): no exception is raised.       *)
(***************************************************************************)
C2_FailedSolveReturnsNone ==
    qp.status \in FailStatuses => (pc = "emit" /\ oa = None /\ odelta = None)

(***************************************************************************)
(* C3. In a tick of do_mpc in which the refiner yields no control          *)
(* sequence, nothing is published and the loop goes on to its goal / time  *)
(* check and the next tick without raising.                                *)
(***************************************************************************)
C3_NoControlNoCommandNoRaise ==
    (loop = "do_mpc" /\ qp.status \in FailStatuses) =>
        (pub = NoMessage /\ pc \in {"emit", "tick", "exited"})

(***************************************************************************)
(* C4. Every control sequence the refinement returns satisfies             *)
(* |accel[t]| <= MAX_ACCEL, |steer[t]| <= MAX_STEER and                    *)
(* |steer[t+1] - steer[t]| <= MAX_DSTEER * DT, whatever accepted status    *)
(* the solve ended with.                                                   *)
(***************************************************************************)
C4_ReturnedControlsWithinLimits ==
    pc = "emit" =>
        /\ \A t \in 1..T : Abs(oa[t]) <= MAX_ACCEL /\ Abs(odelta[t]) <= MAX_STEER
        /\ \A t \in 1..(T - 1) : Abs(odelta[t + 1] - odelta[t]) <= MAX_DSTEER * DT

(***************************************************************************)
(* C7 as stated. Every refinement ends after 1..MAX_ITER solves, at the    *)
(* first solve whose control change is <= DU_TH and otherwise at solve     *)
(* number MAX_ITER, and hands back the solution of its last solve.         *)
(***************************************************************************)
RefinementEnded == pc \in {"emit", "raised"}

C7_EndsConvergedOrAtCap ==
    RefinementEnded =>
        /\ iter \in 1..MAX_ITER
        /\ (du # None /\ du[1] <= DU_TH) \/ iter = MAX_ITER
        /\ oa = qp.u.oa /\ odelta = qp.u.od

(***************************************************************************)
(* C7 amended. While the refinement runs, every solve so far succeeded     *)
(* with a control change > DU_TH and fewer than MAX_ITER solves were made; *)
(* it returns after 1..MAX_ITER solves, at the first solve whose change is *)
(* <= DU_TH and otherwise at solve number MAX_ITER, with the solution of   *)
(* that last solve; a solve that fails ends it at once, after 1..MAX_ITER  *)
(* solves, with no sequence returned.                                      *)
(***************************************************************************)
C7_SolveCount ==
    /\ pc = "refine" =>
          /\ iter \in 0..(MAX_ITER - 1)
          /\ iter > 0 => (du # None /\ du[1] > DU_TH /\ qp.status \notin FailStatuses)
    /\ pc = "emit" =>
          /\ iter \in 1..MAX_ITER
          /\ du # None /\ (du[1] <= DU_TH \/ iter = MAX_ITER)
          /\ qp.status \in {"optimal", "optimal_inaccurate"}
          /\ oa = qp.u.oa /\ odelta = qp.u.od
    /\ pc = "raised" =>
          /\ iter \in 1..MAX_ITER
          /\ qp.status \in FailStatuses
          /\ oa = None /\ odelta = None

C7_Witness ==
    /\ pc = "emit" /\ iter = MAX_ITER /\ du # None /\ du[1] > DU_TH
    /\ oa = qp.u.oa

(***************************************************************************)
(* C8. The control loop terminates: every step of the loop lowers a        *)
(* non-negative integer measure (the time left to MAX_TIME + 2 DT, then    *)
(* the steps left in the tick) and a loop that has not ended can always    *)
(* take a step, so it ends after a bounded number of ticks; it is not      *)
(* re-entered after a tick at whose end check_goal holds, and when it is   *)
(* left check_goal holds or the accumulated time exceeds MAX_TIME.         *)
(***************************************************************************)
GoalNow == check_goal(state, CourseGoal, target_ind, Len(CourseX))

StepsLeftInTick ==
    IF pc = "tick" THEN MAX_ITER + 1
    ELSE IF pc = "refine" THEN MAX_ITER - iter
    ELSE 0

LoopMeasure == (MAX_TIME + 2 * DT - time) * (MAX_ITER + 2) + StepsLeftInTick

C8_LoopTerminates ==
    /\ [][LoopMeasure' < LoopMeasure]_vars
    /\ [](LoopMeasure >= 0)
    /\ [](pc \in {"tick", "refine", "emit"} => ENABLED NextBudget)
    /\ []((pc = "tick" /\ time > 0) => ~GoalNow)
    /\ [](pc = "exited" => (GoalNow \/ time > MAX_TIME))

C8_Witness == pc = "exited" /\ time > MAX_TIME /\ ~GoalNow

(***************************************************************************)
(* C11. Across any sequence of ticks the reference index never moves       *)
(* backward and never leaves the path: with N samples and the previous     *)
(* index pind in 0..N-1, calc_ref_trajectory returns an index ind with     *)
(* pind <= ind <= min(pind + N_IND_SEARCH - 1, N - 1), for every state.    *)
(***************************************************************************)
Min(a, b) == IF a <= b THEN a ELSE b

C11_IndexForwardInWindow ==
    call.fn = "calc_ref_trajectory" =>
        /\ call.pind \in 0..(Len(call.course.cx) - 1)
        /\ ret.kind = "return"
        /\ call.pind <= ret.ind
        /\ ret.ind <= Min(call.pind + N_IND_SEARCH - 1, Len(call.course.cx) - 1)

\* the index moved forward, by less than the window, on a course longer than the window
C11_Witness ==
    /\ call.fn = "calc_ref_trajectory"
    /\ Len(call.course.cx) > N_IND_SEARCH
    /\ call.pind > 0
    /\ ret.ind > call.pind
    /\ ret.ind < call.pind + N_IND_SEARCH - 1

(***************************************************************************)
(* C12. For every state, start index and horizon row i in 0..T, row i of   *)
(* the reference window is read from the one path sample of index          *)
(* min(ind + dind_i, N - 1), with dind_i = round(travel / dl) non-         *)
(* decreasing in i: no index above N - 1 is read, and once a row is        *)
(* clamped to the final sample every later row is the final sample, whose  *)
(* speed reference is 0.                                                   *)
(***************************************************************************)
RefSample(course, j) ==
    [x |-> course.cx[j + 1], y |-> course.cy[j + 1],
     v |-> course.sp[j + 1], yaw |-> course.cyaw[j + 1]]

C12_RowsClampToFinalSample ==
    call.fn = "calc_ref_trajectory" =>
        LET N == Len(call.course.cx)
            dind(i) == ref_dind(call.state, dl, i)
        IN  \A i \in 0..T :
               /\ ret.rows[i] \in 0..(N - 1)
               /\ ret.rows[i] = Min(ret.ind + dind(i), N - 1)
               /\ ret.xref[i] = RefSample(call.course, ret.rows[i])
               /\ i < T => dind(i) <= dind(i + 1)
               /\ ret.ind + dind(i) >= N =>
                     \A j \in i..T : ret.rows[j] = N - 1 /\ ret.xref[j].v = 0

\* a window that starts on the course and is clamped to the final sample from some later row on
C12_Witness ==
    /\ call.fn = "calc_ref_trajectory"
    /\ ret.rows[0] < Len(call.course.cx) - 1
    /\ ret.rows[1] > ret.rows[0]
    /\ ret.ind + ref_dind(call.state, dl, T - 1) >= Len(call.course.cx)
    /\ ret.xref[T].v = 0

(***************************************************************************)
(* C13. For every adjacent pair of samples i, i+1, pairs parallel to an    *)
(* axis included, calc_speed_profile sets speed[i] = -target_speed when    *)
(* the travel direction atan2(dy, dx) deviates from cyaw[i] by at least    *)
(* 45 degrees and +target_speed otherwise: the sign of sample i depends on *)
(* that pair alone.                                                        *)
(***************************************************************************)
PairDeviates(cx, cy, cyaw, i) ==
    Abs(pi_2_pi(atan2(cy[i + 1] - cy[i], cx[i + 1] - cx[i]) - cyaw[i])) >= PI \div 4

C13_SignFromOwnPair ==
    (call.fn = "calc_speed_profile" /\ Len(call.cx) >= 2) =>
        \A i \in 1..(Len(call.cx) - 1) :
            ret.val[i] = IF PairDeviates(call.cx, call.cy, call.cyaw, i)
                         THEN -call.target_speed
                         ELSE call.target_speed

(***************************************************************************)
(* C14. In every tick of do_mpc the vehicle state handed to                *)
(* calc_ref_trajectory and used as x0 of the refinement is the sensor      *)
(* snapshot read by getinfo.run() in that same tick.                       *)
(***************************************************************************)
C14_TickUsesItsOwnSnapshot ==
    (loop = "do_mpc" /\ pc \in {"refine", "emit"}) =>
        x0 = <<infos.x, infos.y, infos.v, infos.yaw>>

(***************************************************************************)
(* C15. The refinement of a tick starts from the full sequence the         *)
(* previous tick's refinement returned (whether it ended converged or at   *)
(* the cap), and from the all-zero sequence of length T on the first tick  *)
(* and after a tick that returned no control; the command of a successful  *)
(* tick is element 0 of the sequence that is the next warm start.          *)
(***************************************************************************)
C15_WarmStartIsPreviousSequence ==
    /\ [](pc = "tick" => IF time = 0 THEN oa = None /\ odelta = None
                                     ELSE oa # None /\ odelta # None)
    /\ [][pc = "emit" => oa' = oa /\ odelta' = odelta]_vars
    /\ [][(pc = "tick" /\ pc' = "refine") =>
             IF oa = None \/ odelta = None
             THEN oa' = [t \in 1..T |-> 0] /\ odelta' = [t \in 1..T |-> 0]
             ELSE oa' = oa /\ odelta' = odelta]_vars
    /\ [][(pc = "emit" /\ loop = "do_mpc" /\ pc' # "raised") =>
             /\ pub'.steer = odelta'[1]
             /\ pub'.throttle - pub'.brake = oa'[1]]_vars
    /\ [][(pc = "emit" /\ loop = "do_simulation") =>
             state'.v = clamp_speed(state.v + oa'[1] * DT)]_vars

\* a second tick whose refinement starts from the non-zero sequence of the first
C15_Witness ==
    /\ pc = "refine" /\ iter = 0 /\ time > 0
    /\ oa # [t \in 1..T |-> 0]

(***************************************************************************)
(* C16. The index lag of the goal check is measured against the final      *)
(* index N - 1: after a tick that leaves the vehicle within GOAL_DIS of    *)
(* the goal and within STOP_SPEED, the loop reports the goal reached (and  *)
(* is left) for every target_ind in N-5..N-1 and goes on for target_ind    *)
(* <= N-6.                                                                 *)
(***************************************************************************)
C16_LagAgainstFinalIndex ==
    (pc \in {"tick", "exited"} /\ time > 0
        /\ GoalDistanceWithin(state, CourseGoal) /\ Abs(state.v) <= STOP_SPEED) =>
        (pc = "exited" <=> Abs(target_ind - (Len(CourseX) - 1)) < 5)

(***************************************************************************)
(* C17. After every update_state(state, a, delta), for any acceleration,   *)
(* any steering and any prior state, MIN_SPEED <= v <= MAX_SPEED, and the  *)
(* steering used in the heading update lies in [-MAX_STEER, MAX_STEER];    *)
(* so along a sequence of simulated ticks the speed stays in range after   *)
(* the first transition.                                                   *)
(***************************************************************************)
C17_SpeedAndSteerClamped ==
    call.fn = "update_state" =>
        /\ \A st \in ret.val : MIN_SPEED <= st.v /\ st.v <= MAX_SPEED
        /\ -MAX_STEER <= clamp_steer(call.delta) /\ clamp_steer(call.delta) <= MAX_STEER
        /\ call.n > 1 => (MIN_SPEED <= call.state.v /\ call.state.v <= MAX_SPEED)

\* a later tick of a sequence in which the integrated speed passed MAX_SPEED and the steering passed MAX_STEER
C17_Witness ==
    /\ call.fn = "update_state" /\ call.n = MaxSteps
    /\ call.state.v + call.a * DT > MAX_SPEED
    /\ call.delta > MAX_STEER
    /\ \E st \in ret.val : st.v = MAX_SPEED

(***************************************************************************)
(* C18. update_state_carla stores exactly the supplied position (x, y) and *)
(* exactly the supplied heading, for every heading in [-pi, pi]: no        *)
(* actuator limit alters the heading.                                      *)
(***************************************************************************)
C18_SnapshotStoredAsGiven ==
    (call.fn = "update_state_carla"
        /\ -PI <= call.yaw_radians_lib /\ call.yaw_radians_lib <= PI) =>
        /\ ret.val.x = call.easting
        /\ ret.val.y = call.northing
        /\ ret.val.yaw = call.yaw_radians_lib

(***************************************************************************)
(* C19. smooth_yaw terminates for every finite heading list (every step    *)
(* of its loops lowers a non-negative integer measure and a run that has   *)
(* not returned can take a step), changes each heading only by an integer  *)
(* multiple of 2 pi, and in its result no two consecutive headings differ  *)
(* by 2 pi or more in magnitude.                                           *)
(***************************************************************************)
\* iterations left in the first and in the second while loop at difference d
DownLeft(d) == IF d >= PI \div 2 THEN (d - PI \div 2) \div (2 * PI) + 1 ELSE 0

UpLeft(d) == IF d <= -(PI \div 2) THEN (-(PI \div 2) - d) \div (2 * PI) + 1 ELSE 0

\* more steps than any one pair of headings of the inputs takes
PairCap == 2 * (3 * PI + 7) + 8

YawMeasure ==
    IF call.fn # "smooth_yaw" THEN 0
    ELSE IF ret.kind = "return" THEN 0
    ELSE LET d == ret.val[ret.i + 1] - ret.val[ret.i]
             here == IF ret.phase = "down"
                     THEN DownLeft(d) + 1 + UpLeft(d - 2 * PI * DownLeft(d)) + 1
                     ELSE UpLeft(d) + 1
         IN  (Len(ret.val) - ret.i) * PairCap + here

C19_SmoothYawUnwraps ==
    /\ [][call.fn = "smooth_yaw" => YawMeasure' < YawMeasure]_vars
    /\ [](YawMeasure >= 0)
    /\ []((call.fn = "smooth_yaw" /\ ret.kind = "running") => ENABLED Step_smooth_yaw)
    /\ []((call.fn = "smooth_yaw" /\ ret.kind = "return") =>
            /\ ret.val = smooth_yaw(call.yaw)
            /\ \A i \in 1..Len(call.yaw) : (ret.val[i] - call.yaw[i]) % (2 * PI) = 0
            /\ \A i \in 1..(Len(call.yaw) - 1) :
                  Abs(ret.val[i + 1] - ret.val[i]) < 2 * PI)

\* a list of full length returned with its last heading moved up and an earlier one moved down
C19_Witness ==
    /\ call.fn = "smooth_yaw" /\ ret.kind = "return" /\ Len(call.yaw) = MaxYaw
    /\ \E i \in 1..MaxYaw : ret.val[i] < call.yaw[i]
    /\ ret.val[MaxYaw] > call.yaw[MaxYaw]

====
